---- MODULE Spec2Model ----
(***************************************************************************)
(* Model of the generic red-black tree of package rbtree (rbtree.go,       *)
(* iterator.go).  The heap is a function from node identities to Node      *)
(* records; r.nil (the shared sentinel) is node 0 and Go's nil pointer is  *)
(* Null.  Every method is an operator on a machine state                   *)
(* [h, root, err, log]; err records a panic and log the fixup cases taken. *)
(***************************************************************************)
EXTENDS Integers, Sequences, FiniteSets, TLC

\* ------------------------------------------------------------------ bounds
MaxVal == 6
\* the traversal specification: values of its trees, where a consumer may
\* stop (at its 1st .. MaxStop-th element), and runs of one producer
MaxIterVal == 4
MaxStop == 2
MaxRuns == 2

Values == 1..MaxVal
IterValues == 1..MaxIterVal
\* Node addresses.  The Node that Insert(val) allocates lives at val, or at
\* val + MaxVal when a Node of the tree already lives at val.
NodeIds == 1..(2 * MaxVal)

\* --------------------------------------------------------------- constants
black == FALSE
red == TRUE

Null == -1
NilNode == 0
\* a reference to a Node that was removed from the tree
Dead == -2
Ids == {NilNode} \cup NodeIds

NoErr == "none"
NilDeref == "nil pointer dereference"
StaleDeref == "removed node dereferenced"
DuplicateValue == "duplicate value"
RotatePanic == "is this possible?"

\* The zero Node: what &Node[T]{color: black} holds, and what a slot of the
\* heap that no reference reaches is normalised to.
Node == [color |-> black, parent |-> Null, left |-> Null, right |-> Null, Value |-> 0]

compare(a, b) == IF a < b THEN -1 ELSE IF a > b THEN 1 ELSE 0

New == [h |-> [i \in Ids |-> Node], root |-> NilNode, err |-> NoErr, log |-> << >>]

getColor(h, n) == IF n = Null THEN black ELSE h[n].color

\* ----------------------------------------------------- sequencing helpers
Fault(t, e) == IF t.err # NoErr THEN t ELSE [t EXCEPT !.err = e]

\* n.f = v.  A write of a child link of the sentinel, or of Red to the
\* sentinel, is recorded in the log.
SetF(t, n, f, v) ==
    IF t.err # NoErr THEN t
    ELSE IF n = Null THEN Fault(t, NilDeref)
    ELSE IF n = NilNode /\ (f \in {"left", "right"} \/ (f = "color" /\ v = red))
    THEN [t EXCEPT !.h[n][f] = v, !.log = Append(@, "sentinel: " \o f)]
    ELSE [t EXCEPT !.h[n][f] = v]

SetRoot(t, v) == IF t.err # NoErr THEN t ELSE [t EXCEPT !.root = v]

Log(t, s) == IF t.err # NoErr THEN t ELSE [t EXCEPT !.log = Append(@, s)]

\* the statement F executed in the state t, unless t has panicked
Then(t, F(_)) == IF t.err # NoErr THEN t ELSE F(t)

\* -------------------------------------------------------------- rotations
\* rotateLeft handing n the wrong subtree of newRoot (n.right = newRoot.right)
rotateLeftWrongChild(t, n) ==
    IF t.err # NoErr THEN t
    ELSE IF n = Null THEN Fault(t, NilDeref)
    ELSE IF t.h[n].right = NilNode THEN Fault(t, RotatePanic)
    ELSE LET newRoot == t.h[n].right IN
      IF newRoot = Null THEN Fault(t, NilDeref)
      ELSE
      Then(Then(Then(Then(Then(Then(t,
        LAMBDA s : SetF(s, n, "right", s.h[newRoot].right)),
        LAMBDA s : SetF(s, newRoot, "left", n)),
        LAMBDA s : IF s.h[n].right # NilNode
                   THEN SetF(s, s.h[n].right, "parent", n)
                   ELSE s),
        LAMBDA s : IF s.h[n].parent = Null THEN SetRoot(s, newRoot)
                   ELSE IF s.h[s.h[n].parent].right = n
                   THEN SetF(s, s.h[n].parent, "right", newRoot)
                   ELSE SetF(s, s.h[n].parent, "left", newRoot)),
        LAMBDA s : SetF(s, newRoot, "parent", s.h[n].parent)),
        LAMBDA s : SetF(s, n, "parent", newRoot))

rotateLeft(t, n) ==
    IF t.err # NoErr THEN t
    ELSE IF n = Null THEN Fault(t, NilDeref)
    ELSE IF t.h[n].right = NilNode THEN Fault(t, RotatePanic)
    ELSE LET newRoot == t.h[n].right IN
      IF newRoot = Null THEN Fault(t, NilDeref)
      ELSE
      Then(Then(Then(Then(Then(Then(t,
        LAMBDA s : SetF(s, n, "right", s.h[newRoot].left)),
        LAMBDA s : SetF(s, newRoot, "left", n)),
        LAMBDA s : IF s.h[n].right # NilNode
                   THEN SetF(s, s.h[n].right, "parent", n)
                   ELSE s),
        LAMBDA s : IF s.h[n].parent = Null THEN SetRoot(s, newRoot)
                   ELSE IF s.h[s.h[n].parent].right = n
                   THEN SetF(s, s.h[n].parent, "right", newRoot)
                   ELSE SetF(s, s.h[n].parent, "left", newRoot)),
        LAMBDA s : SetF(s, newRoot, "parent", s.h[n].parent)),
        LAMBDA s : SetF(s, n, "parent", newRoot))

\* rotateRight that leaves the parent link of the subtree handed to n as it was
rotateRightNoReparent(t, n) ==
    IF t.err # NoErr THEN t
    ELSE IF n = Null THEN Fault(t, NilDeref)
    ELSE IF t.h[n].left = Null THEN Fault(t, RotatePanic)
    ELSE LET newRoot == t.h[n].left IN
      Then(Then(Then(Then(Then(Then(t,
        LAMBDA s : SetF(s, n, "left", s.h[newRoot].right)),
        LAMBDA s : SetF(s, newRoot, "right", n)),
        LAMBDA s : s),
        LAMBDA s : IF s.h[n].parent = Null THEN SetRoot(s, newRoot)
                   ELSE IF s.h[s.h[n].parent].left = n
                   THEN SetF(s, s.h[n].parent, "left", newRoot)
                   ELSE SetF(s, s.h[n].parent, "right", newRoot)),
        LAMBDA s : SetF(s, newRoot, "parent", s.h[n].parent)),
        LAMBDA s : SetF(s, n, "parent", newRoot))

rotateRight(t, n) ==
    IF t.err # NoErr THEN t
    ELSE IF n = Null THEN Fault(t, NilDeref)
    ELSE IF t.h[n].left = Null THEN Fault(t, RotatePanic)
    ELSE LET newRoot == t.h[n].left IN
      Then(Then(Then(Then(Then(Then(t,
        LAMBDA s : SetF(s, n, "left", s.h[newRoot].right)),
        LAMBDA s : SetF(s, newRoot, "right", n)),
        LAMBDA s : IF s.h[n].left # NilNode
                   THEN SetF(s, s.h[n].left, "parent", n)
                   ELSE s),
        LAMBDA s : IF s.h[n].parent = Null THEN SetRoot(s, newRoot)
                   ELSE IF s.h[s.h[n].parent].left = n
                   THEN SetF(s, s.h[n].parent, "left", newRoot)
                   ELSE SetF(s, s.h[n].parent, "right", newRoot)),
        LAMBDA s : SetF(s, newRoot, "parent", s.h[n].parent)),
        LAMBDA s : SetF(s, n, "parent", newRoot))

\* ------------------------------------------------------------ insertFixup
\* insertFixup rotating the grandparent towards the fixup node in the line case
RECURSIVE insertFixupWrongWay(_, _)
insertFixupWrongWay(t, check) ==
    IF t.err # NoErr THEN t
    ELSE IF check = Null THEN Fault(t, NilDeref)
    ELSE IF getColor(t.h, t.h[check].parent) = red THEN
      LET parent == t.h[check].parent
          grandParent == t.h[parent].parent
      IN
      IF grandParent = Null THEN Fault(t, NilDeref)
      ELSE IF parent = t.h[grandParent].left THEN
        LET uncle == t.h[grandParent].right IN
        IF getColor(t.h, uncle) = red THEN
          insertFixupWrongWay(Log(SetF(SetF(SetF(t, parent, "color", black),
                                    uncle, "color", black),
                               grandParent, "color", red),
                          "insert: red uncle"),
                      grandParent)
        ELSE
          LET triangle == (check = t.h[parent].right)
              check1 == IF triangle THEN parent ELSE check
          IN insertFixupWrongWay(
               Then(Then(Then(Then(
                 IF triangle THEN rotateLeft(Log(t, "insert: triangle"), check1) ELSE t,
                 LAMBDA s : SetF(s, s.h[check1].parent, "color", black)),
                 LAMBDA s : SetF(s, s.h[s.h[check1].parent].parent, "color", red)),
                 LAMBDA s : rotateLeft(s, s.h[s.h[check1].parent].parent)),
                 LAMBDA s : Log(s, "insert: line")),
               check1)
      ELSE
        LET uncle == t.h[grandParent].left IN
        IF getColor(t.h, uncle) = red THEN
          insertFixupWrongWay(Log(SetF(SetF(SetF(t, parent, "color", black),
                                    uncle, "color", black),
                               grandParent, "color", red),
                          "insert: red uncle"),
                      grandParent)
        ELSE
          LET triangle == (check = t.h[parent].left)
              check1 == IF triangle THEN parent ELSE check
          IN insertFixupWrongWay(
               Then(Then(Then(Then(
                 IF triangle THEN rotateRight(Log(t, "insert: triangle"), check1) ELSE t,
                 LAMBDA s : SetF(s, s.h[check1].parent, "color", black)),
                 LAMBDA s : SetF(s, s.h[s.h[check1].parent].parent, "color", red)),
                 LAMBDA s : rotateRight(s, s.h[s.h[check1].parent].parent)),
                 LAMBDA s : Log(s, "insert: line")),
               check1)
    ELSE SetF(t, t.root, "color", black)

RECURSIVE insertFixup(_, _)
insertFixup(t, check) ==
    IF t.err # NoErr THEN t
    ELSE IF check = Null THEN Fault(t, NilDeref)
    ELSE IF getColor(t.h, t.h[check].parent) = red THEN
      LET parent == t.h[check].parent
          grandParent == t.h[parent].parent
      IN
      IF grandParent = Null THEN Fault(t, NilDeref)
      ELSE IF parent = t.h[grandParent].left THEN
        LET uncle == t.h[grandParent].right IN
        IF getColor(t.h, uncle) = red THEN
          insertFixup(Log(SetF(SetF(SetF(t, parent, "color", black),
                                    uncle, "color", black),
                               grandParent, "color", red),
                          "insert: red uncle"),
                      grandParent)
        ELSE
          LET triangle == (check = t.h[parent].right)
              check1 == IF triangle THEN parent ELSE check
          IN insertFixup(
               Then(Then(Then(Then(
                 IF triangle THEN rotateLeft(Log(t, "insert: triangle"), check1) ELSE t,
                 LAMBDA s : SetF(s, s.h[check1].parent, "color", black)),
                 LAMBDA s : SetF(s, s.h[s.h[check1].parent].parent, "color", red)),
                 LAMBDA s : rotateRight(s, s.h[s.h[check1].parent].parent)),
                 LAMBDA s : Log(s, "insert: line")),
               check1)
      ELSE
        LET uncle == t.h[grandParent].left IN
        IF getColor(t.h, uncle) = red THEN
          insertFixup(Log(SetF(SetF(SetF(t, parent, "color", black),
                                    uncle, "color", black),
                               grandParent, "color", red),
                          "insert: red uncle"),
                      grandParent)
        ELSE
          LET triangle == (check = t.h[parent].left)
              check1 == IF triangle THEN parent ELSE check
          IN insertFixup(
               Then(Then(Then(Then(
                 IF triangle THEN rotateRight(Log(t, "insert: triangle"), check1) ELSE t,
                 LAMBDA s : SetF(s, s.h[check1].parent, "color", black)),
                 LAMBDA s : SetF(s, s.h[s.h[check1].parent].parent, "color", red)),
                 LAMBDA s : rotateLeft(s, s.h[s.h[check1].parent].parent)),
                 LAMBDA s : Log(s, "insert: line")),
               check1)
    ELSE SetF(t, t.root, "color", black)

\* ----------------------------------------------------------------- Insert
\* the descent of Insert without the duplicate check: an equal value goes right
RECURSIVE insertDescendNoCheck(_, _, _, _)
insertDescendNoCheck(t, current, insert, val) ==
    IF current = NilNode THEN t
    ELSE IF current = Null THEN Fault(t, NilDeref)
    ELSE
      LET test == compare(val, t.h[current].Value) IN
      IF test < 0 THEN
        IF t.h[current].left = NilNode
        THEN SetF(SetF(t, insert, "parent", current), current, "left", insert)
        ELSE insertDescendNoCheck(t, t.h[current].left, insert, val)
      ELSE
        IF t.h[current].right = NilNode
        THEN SetF(SetF(t, insert, "parent", current), current, "right", insert)
        ELSE insertDescendNoCheck(t, t.h[current].right, insert, val)

\* The descent loop of Insert: attaches insert below current, or panics.
RECURSIVE insertDescend(_, _, _, _)
insertDescend(t, current, insert, val) ==
    IF current = NilNode THEN t
    ELSE IF current = Null THEN Fault(t, NilDeref)
    ELSE
      LET test == compare(val, t.h[current].Value) IN
      IF test < 0 THEN
        IF t.h[current].left = NilNode
        THEN SetF(SetF(t, insert, "parent", current), current, "left", insert)
        ELSE insertDescend(t, t.h[current].left, insert, val)
      ELSE IF test > 0 THEN
        IF t.h[current].right = NilNode
        THEN SetF(SetF(t, insert, "parent", current), current, "right", insert)
        ELSE insertDescend(t, t.h[current].right, insert, val)
      ELSE Fault(t, DuplicateValue)

\* Insert(val); new is the address of the Node the call allocates.  The node
\* returned is new whenever the call returns (err = NoErr).
Insert(t, val, new) ==
    IF t.root = NilNode THEN
      [t EXCEPT !.h[new] = [Value |-> val, color |-> black, left |-> NilNode,
                            right |-> NilNode, parent |-> Null],
                !.root = new]
    ELSE
      insertFixup(
        Then([t EXCEPT !.h[new] = [Value |-> val, color |-> red, left |-> NilNode,
                                   right |-> NilNode, parent |-> Null]],
             LAMBDA s : insertDescend(s, s.root, new, val)),
        new)

\* ----------------------------------------------------------------- Search
\* the walk of Search with the two directions swapped
RECURSIVE searchFromSwapped(_, _, _)
searchFromSwapped(t, current, val) ==
    IF current = NilNode THEN Null
    ELSE
      LET test == compare(val, t.h[current].Value) IN
      IF test < 0 THEN searchFromSwapped(t, t.h[current].right, val)
      ELSE IF test > 0 THEN searchFromSwapped(t, t.h[current].left, val)
      ELSE current

RECURSIVE searchFrom(_, _, _)
searchFrom(t, current, val) ==
    IF current = NilNode THEN Null
    ELSE
      LET test == compare(val, t.h[current].Value) IN
      IF test < 0 THEN searchFrom(t, t.h[current].left, val)
      ELSE IF test > 0 THEN searchFrom(t, t.h[current].right, val)
      ELSE current

Search(t, val) == searchFrom(t, t.root, val)

Has(t, val) == Search(t, val) # Null

\* --------------------------------------------------------------- transplant
\* transplant that forgets r.root when u is the root
transplantNoRoot(t, u, v) ==
    IF t.err # NoErr THEN t
    ELSE IF u = Null THEN Fault(t, NilDeref)
    ELSE
      LET p == t.h[u].parent IN
      Then(IF p = Null THEN t
           ELSE IF u = t.h[p].left THEN SetF(t, p, "left", v)
           ELSE SetF(t, p, "right", v),
           LAMBDA s : SetF(s, v, "parent", s.h[u].parent))

\* transplant that leaves the parent link of the sentinel alone
transplantKeepSentinel(t, u, v) ==
    IF t.err # NoErr THEN t
    ELSE IF u = Null THEN Fault(t, NilDeref)
    ELSE
      LET p == t.h[u].parent IN
      Then(IF p = Null THEN SetRoot(t, v)
           ELSE IF u = t.h[p].left THEN SetF(t, p, "left", v)
           ELSE SetF(t, p, "right", v),
           LAMBDA s : IF v = NilNode THEN s ELSE SetF(s, v, "parent", s.h[u].parent))

transplant(t, u, v) ==
    IF t.err # NoErr THEN t
    ELSE IF u = Null THEN Fault(t, NilDeref)
    ELSE
      LET p == t.h[u].parent IN
      Then(IF p = Null THEN SetRoot(t, v)
           ELSE IF u = t.h[p].left THEN SetF(t, p, "left", v)
           ELSE SetF(t, p, "right", v),
           LAMBDA s : SetF(s, v, "parent", s.h[u].parent))

\* -------------------------------------------------------------- deleteFixup
\* deleteFixup that after case 4 goes on from the parent of the fixup node
RECURSIVE deleteFixupGoesOn(_, _)
deleteFixupGoesOn(t, n) ==
    IF t.err # NoErr THEN t
    ELSE IF n # t.root /\ getColor(t.h, n) = black THEN
      IF n = Null THEN Fault(t, NilDeref)
      ELSE IF t.h[n].parent = Null THEN Fault(t, NilDeref)
      ELSE IF t.h[n].parent = Dead THEN Fault(t, StaleDeref)
      ELSE IF n = t.h[t.h[n].parent].left THEN
        Then(
          \* case 1: sibling is red
          LET sibling == t.h[t.h[n].parent].right IN
          IF getColor(t.h, sibling) = red
          THEN rotateLeft(SetF(SetF(Log(t, "delete: case 1"), sibling, "color", black),
                                t.h[n].parent, "color", red),
                           t.h[n].parent)
          ELSE t,
          LAMBDA s :
            LET sibling == s.h[s.h[n].parent].right IN
            IF sibling = Null THEN Fault(s, NilDeref)
            ELSE IF getColor(s.h, s.h[sibling].left) = black
                    /\ getColor(s.h, s.h[sibling].right) = black THEN
              \* case 2: sibling has two black descendants
              deleteFixupGoesOn(SetF(Log(s, "delete: case 2"), sibling, "color", red),
                          s.h[n].parent)
            ELSE
              Then(
                \* case 3: the far child of sibling is black
                IF getColor(s.h, s.h[sibling].right) = black
                THEN rotateRight(SetF(SetF(Log(s, "delete: case 3"),
                                           s.h[sibling].left, "color", black),
                                      sibling, "color", red),
                                 sibling)
                ELSE s,
                LAMBDA u :
                  \* case 4
                  LET sibling4 == u.h[u.h[n].parent].right IN
                  Then(Then(Then(Then(
                    SetF(Log(u, "delete: case 4"), sibling4, "color",
                         u.h[u.h[n].parent].color),
                    LAMBDA w : SetF(w, w.h[n].parent, "color", black)),
                    LAMBDA w : SetF(w, w.h[sibling4].right, "color", black)),
                    LAMBDA w : rotateLeft(w, w.h[n].parent)),
                    LAMBDA w : deleteFixupGoesOn(w, w.h[n].parent))))
      ELSE
        Then(
          \* case 1: sibling is red
          LET sibling == t.h[t.h[n].parent].left IN
          IF getColor(t.h, sibling) = red
          THEN rotateRight(SetF(SetF(Log(t, "delete: case 1"), sibling, "color", black),
                                t.h[n].parent, "color", red),
                           t.h[n].parent)
          ELSE t,
          LAMBDA s :
            LET sibling == s.h[s.h[n].parent].left IN
            IF sibling = Null THEN Fault(s, NilDeref)
            ELSE IF getColor(s.h, s.h[sibling].right) = black
                    /\ getColor(s.h, s.h[sibling].left) = black THEN
              \* case 2: sibling has two black descendants
              deleteFixupGoesOn(SetF(Log(s, "delete: case 2"), sibling, "color", red),
                          s.h[n].parent)
            ELSE
              Then(
                \* case 3: the far child of sibling is black
                IF getColor(s.h, s.h[sibling].left) = black
                THEN rotateLeft(SetF(SetF(Log(s, "delete: case 3"),
                                           s.h[sibling].right, "color", black),
                                      sibling, "color", red),
                                 sibling)
                ELSE s,
                LAMBDA u :
                  \* case 4
                  LET sibling4 == u.h[u.h[n].parent].left IN
                  Then(Then(Then(Then(
                    SetF(Log(u, "delete: case 4"), sibling4, "color",
                         u.h[u.h[n].parent].color),
                    LAMBDA w : SetF(w, w.h[n].parent, "color", black)),
                    LAMBDA w : SetF(w, w.h[sibling4].left, "color", black)),
                    LAMBDA w : rotateRight(w, w.h[n].parent)),
                    LAMBDA w : deleteFixupGoesOn(w, w.h[n].parent))))
    ELSE SetF(t, n, "color", black)

RECURSIVE deleteFixup(_, _)
deleteFixup(t, n) ==
    IF t.err # NoErr THEN t
    ELSE IF n # t.root /\ getColor(t.h, n) = black THEN
      IF n = Null THEN Fault(t, NilDeref)
      ELSE IF t.h[n].parent = Null THEN Fault(t, NilDeref)
      ELSE IF t.h[n].parent = Dead THEN Fault(t, StaleDeref)
      ELSE IF n = t.h[t.h[n].parent].left THEN
        Then(
          \* case 1: sibling is red
          LET sibling == t.h[t.h[n].parent].right IN
          IF getColor(t.h, sibling) = red
          THEN rotateLeft(SetF(SetF(Log(t, "delete: case 1"), sibling, "color", black),
                                t.h[n].parent, "color", red),
                           t.h[n].parent)
          ELSE t,
          LAMBDA s :
            LET sibling == s.h[s.h[n].parent].right IN
            IF sibling = Null THEN Fault(s, NilDeref)
            ELSE IF getColor(s.h, s.h[sibling].left) = black
                    /\ getColor(s.h, s.h[sibling].right) = black THEN
              \* case 2: sibling has two black descendants
              deleteFixup(SetF(Log(s, "delete: case 2"), sibling, "color", red),
                          s.h[n].parent)
            ELSE
              Then(
                \* case 3: the far child of sibling is black
                IF getColor(s.h, s.h[sibling].right) = black
                THEN rotateRight(SetF(SetF(Log(s, "delete: case 3"),
                                           s.h[sibling].left, "color", black),
                                      sibling, "color", red),
                                 sibling)
                ELSE s,
                LAMBDA u :
                  \* case 4
                  LET sibling4 == u.h[u.h[n].parent].right IN
                  Then(Then(Then(Then(
                    SetF(Log(u, "delete: case 4"), sibling4, "color",
                         u.h[u.h[n].parent].color),
                    LAMBDA w : SetF(w, w.h[n].parent, "color", black)),
                    LAMBDA w : SetF(w, w.h[sibling4].right, "color", black)),
                    LAMBDA w : rotateLeft(w, w.h[n].parent)),
                    LAMBDA w : deleteFixup(w, w.root))))
      ELSE
        Then(
          \* case 1: sibling is red
          LET sibling == t.h[t.h[n].parent].left IN
          IF getColor(t.h, sibling) = red
          THEN rotateRight(SetF(SetF(Log(t, "delete: case 1"), sibling, "color", black),
                                t.h[n].parent, "color", red),
                           t.h[n].parent)
          ELSE t,
          LAMBDA s :
            LET sibling == s.h[s.h[n].parent].left IN
            IF sibling = Null THEN Fault(s, NilDeref)
            ELSE IF getColor(s.h, s.h[sibling].right) = black
                    /\ getColor(s.h, s.h[sibling].left) = black THEN
              \* case 2: sibling has two black descendants
              deleteFixup(SetF(Log(s, "delete: case 2"), sibling, "color", red),
                          s.h[n].parent)
            ELSE
              Then(
                \* case 3: the far child of sibling is black
                IF getColor(s.h, s.h[sibling].left) = black
                THEN rotateLeft(SetF(SetF(Log(s, "delete: case 3"),
                                           s.h[sibling].right, "color", black),
                                      sibling, "color", red),
                                 sibling)
                ELSE s,
                LAMBDA u :
                  \* case 4
                  LET sibling4 == u.h[u.h[n].parent].left IN
                  Then(Then(Then(Then(
                    SetF(Log(u, "delete: case 4"), sibling4, "color",
                         u.h[u.h[n].parent].color),
                    LAMBDA w : SetF(w, w.h[n].parent, "color", black)),
                    LAMBDA w : SetF(w, w.h[sibling4].left, "color", black)),
                    LAMBDA w : rotateRight(w, w.h[n].parent)),
                    LAMBDA w : deleteFixup(w, w.root))))
    ELSE SetF(t, n, "color", black)

\* --------------------------------------------------------------- DeleteNode
\* minimum := n.right; for minimum.left != r.nil { minimum = minimum.left }
RECURSIVE leftmost(_, _)
leftmost(t, m) == IF t.h[m].left = NilNode THEN m ELSE leftmost(t, t.h[m].left)

\* the splice that copies the successor's Value into n and unlinks the
\* successor, instead of moving the successor node into n's place
deleteSpliceCopy(t, n) ==
    IF t.h[n].left = NilNode THEN
      LET odd == t.h[n].right IN
      [t |-> transplant(Log(t, "delete: left child nil"), n, odd), odd |-> odd,
       originalColor |-> t.h[n].color]
    ELSE IF t.h[n].right = NilNode THEN
      LET odd == t.h[n].left IN
      [t |-> transplant(Log(t, "delete: right child nil"), n, odd), odd |-> odd,
       originalColor |-> t.h[n].color]
    ELSE
      LET minimum == leftmost(t, t.h[n].right)
          odd == t.h[minimum].right
      IN [t |-> transplant(SetF(Log(t, "delete: deeper successor"), n, "Value",
                                t.h[minimum].Value),
                           minimum, odd),
          odd |-> odd, originalColor |-> t.h[minimum].color]

\* The part of DeleteNode before the fixup: the node is spliced out.  The
\* result carries the fixup start node odd and the colour that was removed.
deleteSplice(t, n) ==
    IF t.h[n].left = NilNode THEN
      \* case 1: left child nil
      LET odd == t.h[n].right IN
      [t |-> transplant(Log(t, "delete: left child nil"), n, odd), odd |-> odd,
       originalColor |-> t.h[n].color]
    ELSE IF t.h[n].right = NilNode THEN
      \* case 2: right child nil
      LET odd == t.h[n].left IN
      [t |-> transplant(Log(t, "delete: right child nil"), n, odd), odd |-> odd,
       originalColor |-> t.h[n].color]
    ELSE
      \* case 3: neither nil
      LET minimum == leftmost(t, t.h[n].right)
          odd == t.h[minimum].right
      IN [t |-> Then(Then(Then(Then(
                  IF t.h[minimum].parent = n
                  THEN IF odd # Null
                       THEN SetF(Log(t, "delete: successor is right child"),
                                 odd, "parent", minimum)
                       ELSE Log(t, "delete: successor is right child")
                  ELSE Then(Then(
                         transplant(Log(t, "delete: deeper successor"),
                                    minimum, t.h[minimum].right),
                         LAMBDA s : SetF(s, minimum, "right", s.h[n].right)),
                         LAMBDA s : SetF(s, s.h[minimum].right, "parent", minimum)),
                  LAMBDA s : transplant(s, n, minimum)),
                  LAMBDA s : SetF(s, minimum, "left", s.h[n].left)),
                  LAMBDA s : SetF(s, s.h[minimum].left, "parent", minimum)),
                  LAMBDA s : SetF(s, minimum, "color", s.h[n].color)),
          odd |-> odd, originalColor |-> t.h[minimum].color]

\* DeleteNode without the fixup
DeleteNodeNoFixup(t, n) ==
    IF n = Null THEN [t |-> t, ok |-> FALSE]
    ELSE [t |-> deleteSplice(t, n).t, ok |-> TRUE]

\* DeleteNode reporting success for nil as well
DeleteNodeAlwaysTrue(t, n) ==
    IF n = Null THEN [t |-> t, ok |-> TRUE]
    ELSE
      LET s == deleteSplice(t, n) IN
      [t |-> IF s.originalColor = black THEN deleteFixup(s.t, s.odd) ELSE s.t,
       ok |-> TRUE]

\* DeleteNode running the fixup whatever colour was removed
DeleteNodeAlwaysFixup(t, n) ==
    IF n = Null THEN [t |-> t, ok |-> FALSE]
    ELSE
      LET s == deleteSplice(t, n) IN
      [t |-> deleteFixup(s.t, s.odd), ok |-> TRUE]

\* DeleteNode(n): the machine state after the call and the value returned.
DeleteNode(t, n) ==
    IF n = Null THEN [t |-> t, ok |-> FALSE]
    ELSE
      LET s == deleteSplice(t, n) IN
      [t |-> IF s.originalColor = black THEN deleteFixup(s.t, s.odd) ELSE s.t,
       ok |-> TRUE]

\* Delete(val) is DeleteNode(Search(val))
Delete(t, val) == DeleteNode(t, Search(t, val))

\* ---------------------------------------------------- Successor/Predecessor
RECURSIVE rightmost(_, _)
rightmost(t, m) == IF t.h[m].right = NilNode THEN m ELSE rightmost(t, t.h[m].right)

RECURSIVE succUp(_, _, _)
succUp(t, node, succ) ==
    IF succ # Null /\ node = t.h[succ].right
    THEN succUp(t, succ, t.h[succ].parent)
    ELSE succ

\* Successor that takes the parent without climbing
SuccessorParent(t, node) ==
    IF node = Null THEN Null
    ELSE IF t.h[node].right # NilNode THEN leftmost(t, t.h[node].right)
    ELSE t.h[node].parent

Successor(t, node) ==
    IF node = Null THEN Null
    ELSE IF t.h[node].right # NilNode THEN leftmost(t, t.h[node].right)
    ELSE succUp(t, node, t.h[node].parent)

RECURSIVE predUp(_, _, _)
predUp(t, node, pred) ==
    IF pred # Null /\ node = t.h[pred].left
    THEN predUp(t, pred, t.h[pred].parent)
    ELSE pred

Predecessor(t, node) ==
    IF node = Null THEN Null
    ELSE IF t.h[node].left # NilNode THEN rightmost(t, t.h[node].left)
    ELSE predUp(t, node, t.h[node].parent)

\* ---------------------------------------------------------------- iterators
InOrder == 0
PreOrder == 1
PostOrder == 2
LevelOrder == 3
IterationMethod == {InOrder, PreOrder, PostOrder, LevelOrder}

\* The iterator struct behind the func Iterate(method) returns (inOrderIter,
\* preOrderIter, postOrderIter, levelOrderIter): its fields start zero.
NewIter(method) == [method |-> method, stack |-> << >>, lastVisit |-> Null, queue |-> << >>]

\* One call of a producer is Run(t, it, stop): the consumer's yield returns
\* false at its stop-th call (never when stop = 0).  The result is the
\* iterator struct after the call, the values yielded, and whether yield
\* returned false.
Pop(q) == SubSeq(q, 1, Len(q) - 1)
Top(q) == q[Len(q)]

\* the descent of the in-order traversal that pushes current only
pushLeftOnce(t, current, stack) ==
    IF current # NilNode THEN Append(stack, current) ELSE stack

RECURSIVE pushLeft(_, _, _)
pushLeft(t, current, stack) ==
    IF current # NilNode
    THEN pushLeft(t, t.h[current].left, Append(stack, current))
    ELSE stack

RECURSIVE inOrderLoop(_, _, _, _, _)
inOrderLoop(t, it, current, out, stop) ==
    IF current # NilNode \/ Len(it.stack) > 0 THEN
      LET stack1 == pushLeft(t, current, it.stack)
          current1 == Top(stack1)
          it1 == [it EXCEPT !.stack = Pop(stack1)]
          out1 == Append(out, t.h[current1].Value)
      IN IF Len(out1) = stop
         THEN [it |-> it1, out |-> out1, stopped |-> TRUE]
         ELSE inOrderLoop(t, it1, t.h[current1].right, out1, stop)
    ELSE [it |-> it, out |-> out, stopped |-> FALSE]

inOrderIterate(t, it, stop) == inOrderLoop(t, it, t.root, << >>, stop)

\* the pre-order loop that notices a false yield only after one more yield
RECURSIVE preOrderLoopLate(_, _, _, _)
preOrderLoopLate(t, it, out, stop) ==
    IF Len(it.stack) > 0 THEN
      LET node == Top(it.stack)
          stack1 == Pop(it.stack)
          out1 == Append(out, t.h[node].Value)
          stack2 == IF t.h[node].right # NilNode
                    THEN Append(stack1, t.h[node].right) ELSE stack1
          stack3 == IF t.h[node].left # NilNode
                    THEN Append(stack2, t.h[node].left) ELSE stack2
      IN IF stop > 0 /\ Len(out1) = stop + 1
         THEN [it |-> [it EXCEPT !.stack = stack1], out |-> out1, stopped |-> TRUE]
         ELSE preOrderLoopLate(t, [it EXCEPT !.stack = stack3], out1, stop)
    ELSE [it |-> it, out |-> out, stopped |-> FALSE]

\* the pre-order loop that pushes left-then-right, so right is processed first
RECURSIVE preOrderLoopRightFirst(_, _, _, _)
preOrderLoopRightFirst(t, it, out, stop) ==
    IF Len(it.stack) > 0 THEN
      LET node == Top(it.stack)
          stack1 == Pop(it.stack)
          out1 == Append(out, t.h[node].Value)
          stack2 == IF t.h[node].left # NilNode
                    THEN Append(stack1, t.h[node].left) ELSE stack1
          stack3 == IF t.h[node].right # NilNode
                    THEN Append(stack2, t.h[node].right) ELSE stack2
      IN IF Len(out1) = stop
         THEN [it |-> [it EXCEPT !.stack = stack1], out |-> out1, stopped |-> TRUE]
         ELSE preOrderLoopRightFirst(t, [it EXCEPT !.stack = stack3], out1, stop)
    ELSE [it |-> it, out |-> out, stopped |-> FALSE]

RECURSIVE preOrderLoop(_, _, _, _)
preOrderLoop(t, it, out, stop) ==
    IF Len(it.stack) > 0 THEN
      LET node == Top(it.stack)
          stack1 == Pop(it.stack)
          out1 == Append(out, t.h[node].Value)
          stack2 == IF t.h[node].right # NilNode
                    THEN Append(stack1, t.h[node].right) ELSE stack1
          stack3 == IF t.h[node].left # NilNode
                    THEN Append(stack2, t.h[node].left) ELSE stack2
      IN IF Len(out1) = stop
         THEN [it |-> [it EXCEPT !.stack = stack1], out |-> out1, stopped |-> TRUE]
         ELSE preOrderLoop(t, [it EXCEPT !.stack = stack3], out1, stop)
    ELSE [it |-> it, out |-> out, stopped |-> FALSE]

preOrderIterate(t, it, stop) ==
    IF t.root = NilNode THEN [it |-> it, out |-> << >>, stopped |-> FALSE]
    ELSE preOrderLoop(t, [it EXCEPT !.stack = <<t.root>>], << >>, stop)

\* the post-order loop that takes a visit of the left child for one of the
\* right child, and so skips the right subtree
RECURSIVE postOrderLoopSkipRight(_, _, _, _, _)
postOrderLoopSkipRight(t, it, current, out, stop) ==
    IF Len(it.stack) > 0 \/ current # NilNode THEN
      IF current # NilNode THEN
        postOrderLoopSkipRight(t, [it EXCEPT !.stack = Append(@, current)],
                               t.h[current].left, out, stop)
      ELSE
        LET peekNode == Top(it.stack) IN
        IF t.h[peekNode].right # NilNode /\ it.lastVisit # t.h[peekNode].right
           /\ it.lastVisit # t.h[peekNode].left THEN
          postOrderLoopSkipRight(t, it, t.h[peekNode].right, out, stop)
        ELSE
          LET out1 == Append(out, t.h[peekNode].Value) IN
          IF Len(out1) = stop
          THEN [it |-> it, out |-> out1, stopped |-> TRUE]
          ELSE postOrderLoopSkipRight(t, [it EXCEPT !.lastVisit = Top(it.stack),
                                                    !.stack = Pop(it.stack)],
                                      current, out1, stop)
    ELSE [it |-> it, out |-> out, stopped |-> FALSE]

RECURSIVE postOrderLoop(_, _, _, _, _)
postOrderLoop(t, it, current, out, stop) ==
    IF Len(it.stack) > 0 \/ current # NilNode THEN
      IF current # NilNode THEN
        postOrderLoop(t, [it EXCEPT !.stack = Append(@, current)],
                      t.h[current].left, out, stop)
      ELSE
        LET peekNode == Top(it.stack) IN
        IF t.h[peekNode].right # NilNode /\ it.lastVisit # t.h[peekNode].right THEN
          postOrderLoop(t, it, t.h[peekNode].right, out, stop)
        ELSE
          LET out1 == Append(out, t.h[peekNode].Value) IN
          IF Len(out1) = stop
          THEN [it |-> it, out |-> out1, stopped |-> TRUE]
          ELSE postOrderLoop(t, [it EXCEPT !.lastVisit = Top(it.stack),
                                           !.stack = Pop(it.stack)],
                             current, out1, stop)
    ELSE [it |-> it, out |-> out, stopped |-> FALSE]

postOrderIterate(t, it, stop) ==
    IF t.root = NilNode THEN [it |-> it, out |-> << >>, stopped |-> FALSE]
    ELSE postOrderLoop(t, it, t.root, << >>, stop)

\* the level-order loop that enqueues right then left
RECURSIVE levelOrderLoopRightFirst(_, _, _, _)
levelOrderLoopRightFirst(t, it, out, stop) ==
    IF Len(it.queue) > 0 THEN
      LET node == Head(it.queue)
          queue1 == Tail(it.queue)
          out1 == Append(out, t.h[node].Value)
          queue2 == IF t.h[node].right # NilNode
                    THEN Append(queue1, t.h[node].right) ELSE queue1
          queue3 == IF t.h[node].left # NilNode
                    THEN Append(queue2, t.h[node].left) ELSE queue2
      IN IF Len(out1) = stop
         THEN [it |-> [it EXCEPT !.queue = queue1], out |-> out1, stopped |-> TRUE]
         ELSE levelOrderLoopRightFirst(t, [it EXCEPT !.queue = queue3], out1, stop)
    ELSE [it |-> it, out |-> out, stopped |-> FALSE]

RECURSIVE levelOrderLoop(_, _, _, _)
levelOrderLoop(t, it, out, stop) ==
    IF Len(it.queue) > 0 THEN
      LET node == Head(it.queue)
          queue1 == Tail(it.queue)
          out1 == Append(out, t.h[node].Value)
          queue2 == IF t.h[node].left # NilNode
                    THEN Append(queue1, t.h[node].left) ELSE queue1
          queue3 == IF t.h[node].right # NilNode
                    THEN Append(queue2, t.h[node].right) ELSE queue2
      IN IF Len(out1) = stop
         THEN [it |-> [it EXCEPT !.queue = queue1], out |-> out1, stopped |-> TRUE]
         ELSE levelOrderLoop(t, [it EXCEPT !.queue = queue3], out1, stop)
    ELSE [it |-> it, out |-> out, stopped |-> FALSE]

levelOrderIterate(t, it, stop) ==
    IF t.root = NilNode THEN [it |-> it, out |-> << >>, stopped |-> FALSE]
    ELSE levelOrderLoop(t, [it EXCEPT !.queue = <<t.root>>], << >>, stop)

\* the method value Iterate(method) returned, called with a consumer
Run(t, it, stop) ==
    IF it.method = InOrder THEN inOrderIterate(t, it, stop)
    ELSE IF it.method = PreOrder THEN preOrderIterate(t, it, stop)
    ELSE IF it.method = PostOrder THEN postOrderIterate(t, it, stop)
    ELSE levelOrderIterate(t, it, stop)

\* ------------------------------------------------------- garbage collection
\* The nodes of the tree: what the links reach from the root.
RECURSIVE reach(_, _)
reach(heap, S) ==
    LET S2 == (S \cup {heap[n].parent : n \in S} \cup {heap[n].left : n \in S}
                 \cup {heap[n].right : n \in S}) \ {Null, NilNode, Dead}
    IN IF S2 = S THEN S ELSE reach(heap, S2)

\* A Node that was removed from the tree is garbage once the call returns:
\* its slot is cleared, and the one reference that may survive it, the
\* scratch parent link of the sentinel, becomes Dead.
collect(heap, rt) ==
    LET live == reach(heap, {rt} \ {Null, NilNode, Dead})
        sp == heap[NilNode].parent
    IN [i \in Ids |->
          IF i = NilNode
          THEN [heap[i] EXCEPT !.parent = IF sp \in live \cup {Null} THEN sp ELSE Dead]
          ELSE IF i \in live THEN heap[i] ELSE Node]

\* ------------------------------------------------------------ state machine
\* h, root: the heap of Nodes and r.root.  ret: the last call, what it
\* returned, whether its value was in the tree when it was made (member) and
\* the fixup cases it ran (log).  present: the values inserted and not deleted
\* since.  handle: the node Insert returned for each of them, kept by the
\* caller.  iter: the producer the caller holds (NoIter: none).  run: the
\* runs of that producer so far: how many, whether one of them before the
\* last was stopped by the consumer (early), and of the last one whether it
\* was stopped and what it yielded.
VARIABLES h, root, ret, present, handle, iter, run

vars == <<h, root, ret, present, handle, iter, run>>

\* the tree object r as the methods see it
tree == [h |-> h, root |-> root, err |-> NoErr, log |-> << >>]

NoRet == [op |-> "New", val |-> 0, node |-> Null, ok |-> TRUE, err |-> NoErr,
          member |-> FALSE, log |-> << >>]

NoIter == [method |-> Null, stack |-> << >>, lastVisit |-> Null, queue |-> << >>]
NoRun == [n |-> 0, early |-> FALSE, stopped |-> FALSE, out |-> << >>]

inTree == reach(h, {root} \ {NilNode})

\* the address of the Node a call of Insert(val) allocates
alloc(val) == IF val \in inTree THEN val + MaxVal ELSE val

Init ==
    /\ h = New.h
    /\ root = New.root
    /\ ret = NoRet
    /\ present = {}
    /\ handle = [v \in Values |-> Null]
    /\ iter = NoIter
    /\ run = NoRun

\* The tree is not mutated while the caller holds a producer.
InsertOf(S) ==
    /\ iter = NoIter
    /\ \E val \in S :
      \E new \in {alloc(val)} : \E r \in {Insert(tree, val, new)} :
      LET returned == r.err = NoErr
      IN /\ root' = r.root
         /\ ret' = [op |-> "Insert", val |-> val, node |-> IF returned THEN new ELSE Null,
                    ok |-> returned, err |-> r.err, member |-> val \in present,
                    log |-> r.log]
         /\ present' = IF returned THEN present \cup {val} ELSE present
         /\ handle' = IF returned THEN [handle EXCEPT ![val] = new] ELSE handle
         /\ h' = collect(r.h, r.root)
         /\ UNCHANGED <<iter, run>>

DeleteOf(S) ==
    /\ iter = NoIter
    /\ \E val \in S :
      \E r \in {Delete(tree, val)} :
      /\ root' = r.t.root
      /\ ret' = [op |-> "Delete", val |-> val, node |-> Search(tree, val),
                 ok |-> r.ok, err |-> r.t.err, member |-> val \in present,
                 log |-> r.t.log]
      /\ present' = present \ {val}
      /\ handle' = [handle EXCEPT ![val] = Null]
      /\ h' = collect(r.t.h, r.t.root)
      /\ UNCHANGED <<iter, run>>

InsertCall == InsertOf(Values)

DeleteCall == DeleteOf(Values)

\* DeleteNode called with a node the caller kept from Insert, or with nil
DeleteNodeCall ==
    /\ iter = NoIter
    /\ \E n \in {Null} \cup {handle[v] : v \in present} :
      \E r \in {DeleteNode(tree, n)} :
      LET val == IF n = Null THEN 0 ELSE h[n].Value
      IN /\ root' = r.t.root
         /\ ret' = [op |-> "DeleteNode", val |-> val, node |-> n, ok |-> r.ok,
                    err |-> r.t.err, member |-> val \in present, log |-> r.t.log]
         /\ present' = present \ {val}
         /\ handle' = [v \in Values |-> IF handle[v] = n THEN Null ELSE handle[v]]
         /\ h' = collect(r.t.h, r.t.root)
         /\ UNCHANGED <<iter, run>>

\* A self-adjusting Search: the node found is rotated one level up.
SearchCallToRoot ==
    \E val \in Values :
      LET n == Search(tree, val)
          p == IF n = Null THEN Null ELSE h[n].parent
          r == IF p = Null THEN tree
               ELSE IF h[p].left = n THEN rotateRight(tree, p)
               ELSE rotateLeft(tree, p)
      IN /\ ret' = [op |-> "Search", val |-> val, node |-> n,
                    ok |-> Has(tree, val), err |-> NoErr, member |-> val \in present,
                    log |-> << >>]
         /\ h' = r.h
         /\ root' = r.root
         /\ UNCHANGED <<present, handle, iter, run>>

SearchCall ==
    \E val \in Values :
      /\ ret' = [op |-> "Search", val |-> val, node |-> Search(tree, val),
                 ok |-> Has(tree, val), err |-> NoErr, member |-> val \in present,
                 log |-> << >>]
      /\ UNCHANGED <<h, root, present, handle, iter, run>>

SuccessorCall ==
    \E n \in {Null} \cup {handle[v] : v \in present} :
      /\ ret' = [op |-> "Successor", val |-> IF n = Null THEN 0 ELSE h[n].Value,
                 node |-> Successor(tree, n), ok |-> TRUE, err |-> NoErr,
                 member |-> n # Null, log |-> << >>]
      /\ UNCHANGED <<h, root, present, handle, iter, run>>

PredecessorCall ==
    \E n \in {Null} \cup {handle[v] : v \in present} :
      /\ ret' = [op |-> "Predecessor", val |-> IF n = Null THEN 0 ELSE h[n].Value,
                 node |-> Predecessor(tree, n), ok |-> TRUE, err |-> NoErr,
                 member |-> n # Null, log |-> << >>]
      /\ UNCHANGED <<h, root, present, handle, iter, run>>

\* Iterate(method): the caller gets a new producer
IterateCall ==
    \E method \in IterationMethod :
      /\ iter' = NewIter(method)
      /\ run' = NoRun
      /\ UNCHANGED <<h, root, ret, present, handle>>

\* the caller runs its producer with a consumer
RunCall ==
    \E stop \in 0..MaxStop :
      /\ iter # NoIter
      /\ run.n < MaxRuns
      /\ \E r \in {Run(tree, iter, stop)} :
         /\ iter' = r.it
         /\ run' = [n |-> run.n + 1, early |-> run.early \/ run.stopped,
                    stopped |-> r.stopped, out |-> r.out]
      /\ UNCHANGED <<h, root, ret, present, handle>>

\* the caller lets go of its producer
DropCall ==
    /\ iter # NoIter
    /\ iter' = NoIter
    /\ run' = NoRun
    /\ UNCHANGED <<h, root, ret, present, handle>>

\* Insert, Delete and DeleteNode from the empty tree
Next ==
    \/ InsertCall
    \/ DeleteCall
    \/ DeleteNodeCall

Spec == Init /\ [][Next]_vars

\* Insert, Delete and the queries Search/Has, Successor and Predecessor
NextQuery ==
    \/ InsertCall
    \/ DeleteCall
    \/ SearchCall
    \/ SuccessorCall
    \/ PredecessorCall

SpecQuery == Init /\ [][NextQuery]_vars

\* the mutations and the traversal producers
InsertIter == InsertOf(IterValues)

DeleteIter == DeleteOf(IterValues)

NextIter ==
    \/ InsertIter
    \/ DeleteIter
    \/ IterateCall
    \/ RunCall
    \/ DropCall

SpecIter == Init /\ [][NextIter]_vars

\* The traversal test: the values 1 .. AscendingLen inserted ascending.
AscendingLen == 10

\* the tree after the first k Inserts of the test
RECURSIVE Ascending(_)
Ascending(k) == IF k = 0 THEN New ELSE Insert(Ascending(k - 1), k, k)

\* the tree is the one the loop of the test has built so far
builtAscending ==
    LET k == Cardinality(present)
        a == Ascending(k)
    IN /\ present = 1..k
       /\ root = a.root
       /\ h = collect(a.h, a.root)

\* the next Insert of the loop of the test
InsertAscending ==
    /\ iter = NoIter
    /\ Cardinality(present) < AscendingLen
    /\ builtAscending
    /\ \E val \in {Cardinality(present) + 1} : \E r \in {Insert(tree, val, val)} :
      /\ root' = r.root
      /\ ret' = [op |-> "Insert", val |-> val, node |-> val, ok |-> r.err = NoErr,
                 err |-> r.err, member |-> FALSE, log |-> r.log]
      /\ present' = present \cup {val}
      /\ handle' = IF val \in Values THEN [handle EXCEPT ![val] = val] ELSE handle
      /\ h' = collect(r.h, r.root)
      /\ UNCHANGED <<iter, run>>

\* Insert of a value that is not in the tree
InsertNew == InsertOf(IterValues \ present)

\* runIterator of the tests: the producer is run with a consumer that
\* never stops
RunIterator ==
    /\ iter # NoIter
    /\ run.n < MaxRuns
    /\ \E r \in {Run(tree, iter, 0)} :
         /\ iter' = r.it
         /\ run' = [n |-> run.n + 1, early |-> run.early \/ run.stopped,
                    stopped |-> r.stopped, out |-> r.out]
    /\ UNCHANGED <<h, root, ret, present, handle>>

\* the traversal producers on the trees of the test and on the trees that
\* Insert and Delete of the values of IterValues make of them
NextOrder ==
    \/ InsertNew
    \/ DeleteIter
    \/ InsertAscending
    \/ IterateCall
    \/ RunIterator
    \/ DropCall

SpecOrder == Init /\ [][NextOrder]_vars

\* Insert and Delete on the trees of the test, which are deep enough for
\* fixups of several iterations
NextDeep ==
    \/ InsertNew
    \/ DeleteIter
    \/ InsertAscending

SpecDeep == Init /\ [][NextDeep]_vars

\* A rotation called on a node of the tree, whatever its children are: the
\* last call made on the tree.
Rotations == {"rotateLeft", "rotateRight"}

RotateLeftCall ==
    /\ ret.op \notin Rotations
    /\ \E n \in inTree : \E r \in {rotateLeft(tree, n)} :
         /\ root' = r.root
         /\ h' = r.h
         /\ ret' = [op |-> "rotateLeft", val |-> h[n].Value, node |-> n,
                    ok |-> r.err = NoErr, err |-> r.err, member |-> TRUE, log |-> r.log]
         /\ UNCHANGED <<present, handle, iter, run>>

RotateRightCall ==
    /\ ret.op \notin Rotations
    /\ \E n \in inTree : \E r \in {rotateRight(tree, n)} :
         /\ root' = r.root
         /\ h' = r.h
         /\ ret' = [op |-> "rotateRight", val |-> h[n].Value, node |-> n,
                    ok |-> r.err = NoErr, err |-> r.err, member |-> TRUE, log |-> r.log]
         /\ UNCHANGED <<present, handle, iter, run>>

InsertBeforeRotate == ret.op \notin Rotations /\ InsertIter

DeleteBeforeRotate == ret.op \notin Rotations /\ DeleteIter

\* Insert and Delete, and then one rotation
NextRotate ==
    \/ InsertBeforeRotate
    \/ DeleteBeforeRotate
    \/ RotateLeftCall
    \/ RotateRightCall

SpecRotate == Init /\ [][NextRotate]_vars

\* The queries and the traversal producers on the trees Insert and Delete of
\* the small values make.  A query reads h, root and the caller's handles, a
\* run reads h, root and the producer: the caller queries while it holds no
\* producer, and asks for a producer before it queries, so that every query
\* of every tree and every run of every producer state on every tree occur,
\* without the product of the two.
Queries == {"Search", "Successor", "Predecessor"}

SearchIdle == iter = NoIter /\ SearchCall

SuccessorIdle == iter = NoIter /\ SuccessorCall

PredecessorIdle == iter = NoIter /\ PredecessorCall

IterateUnqueried == ret.op \notin Queries /\ IterateCall

NextRead ==
    \/ InsertIter
    \/ DeleteIter
    \/ SearchIdle
    \/ SuccessorIdle
    \/ PredecessorIdle
    \/ IterateUnqueried
    \/ RunCall
    \/ DropCall

SpecRead == Init /\ [][NextRead]_vars

\* ================================================================ properties
Min(S) == CHOOSE x \in S : \A y \in S : x <= y
Max(S) == CHOOSE x \in S : \A y \in S : x >= y

RECURSIVE SortedSeq(_)
SortedSeq(S) == IF S = {} THEN << >> ELSE <<Min(S)>> \o SortedSeq(S \ {Min(S)})

Logged(s) == \E i \in 1..Len(ret.log) : ret.log[i] = s

\* no path of a well-formed tree is longer than this
Fuel == 2 * MaxVal + 2

\* the nodes below n, n included, by the child links
RECURSIVE subtree(_, _, _)
subtree(heap, n, fuel) ==
    IF n \notin NodeIds \/ fuel = 0 THEN {}
    ELSE {n} \cup subtree(heap, heap[n].left, fuel - 1)
             \cup subtree(heap, heap[n].right, fuel - 1)

\* the black height of n as the tests compute it: -1 when two paths disagree
RECURSIVE blackHeight(_, _, _)
blackHeight(heap, n, fuel) ==
    IF n \notin NodeIds THEN 1
    ELSE IF fuel = 0 THEN -1
    ELSE LET leftHeight == blackHeight(heap, heap[n].left, fuel - 1)
             rightHeight == blackHeight(heap, heap[n].right, fuel - 1)
         IN IF leftHeight = -1 \/ rightHeight = -1 \/ leftHeight # rightHeight THEN -1
            ELSE IF heap[n].color = black THEN leftHeight + 1
            ELSE leftHeight

\* C1: after every Insert, Delete and DeleteNode call the root is Black, no
\* Red node has a Red child, and below every node all paths to the sentinel
\* hold the same number of Black nodes (blackHeight is -1 at the root as
\* soon as two paths below some node disagree, and every node of the tree is
\* below the root).
ColourInvariants ==
    /\ root # NilNode => h[root].color = black
    /\ \A n \in inTree :
         h[n].color = red =>
           getColor(h, h[n].left) = black /\ getColor(h, h[n].right) = black
    /\ blackHeight(h, root, Fuel) # -1
    /\ inTree = subtree(h, root, Fuel)

\* a Delete whose fixup met a Red sibling (case 1) left a tree with Red nodes
ColourWitness ==
    /\ ret.op = "Delete"
    /\ Logged("delete: case 1")
    /\ \E n \in inTree : h[n].color = red

\* C2: after every call the tree is a binary search tree without duplicates:
\* below every node, the values on the left compare less and the values on
\* the right compare greater.
SearchTreeOrder ==
    \A n \in inTree :
      /\ \A m \in subtree(h, h[n].left, Fuel) : compare(h[m].Value, h[n].Value) < 0
      /\ \A m \in subtree(h, h[n].right, Fuel) : compare(h[m].Value, h[n].Value) > 0

\* a Delete that moved a deeper successor up and then rotated in its fixup
SearchTreeWitness ==
    /\ ret.op = "Delete"
    /\ Logged("delete: deeper successor")
    /\ Logged("delete: case 4")
    /\ Cardinality(inTree) >= 4

\* C3: Search(v) returns a node of value v exactly when v was inserted and
\* not deleted since, nil otherwise, and Has(v) tells whether it returns one.
SearchCorrect ==
    /\ \A v \in Values :
         /\ v \in present => Search(tree, v) \in NodeIds /\ h[Search(tree, v)].Value = v
         /\ v \notin present => Search(tree, v) = Null
         /\ Has(tree, v) <=> v \in present
    /\ ret.op = "Search" =>
         /\ ret.node # Null <=> ret.val \in present
         /\ ret.node # Null => h[ret.node].Value = ret.val
         /\ ret.ok <=> ret.node # Null

\* Search misses a value in a tree of three or more that a Delete has spliced
SearchWitness ==
    /\ ret.op = "Search"
    /\ ret.node = Null
    /\ ret.val \notin present
    /\ Cardinality(present) >= 3
    /\ h[NilNode].parent # Null
    /\ \E v \in present : Search(tree, v) # root

\* C5: when every inserted value has been deleted the root is the sentinel
\* again, every Delete of a value of the tree returned true, and an Insert
\* into the empty tree makes its node the Black root without a fixup.
EmptyAfterDeletes ==
    /\ present = {} => root = NilNode
    /\ root = NilNode => present = {}
    /\ ret.op = "Delete" /\ ret.member => ret.ok
    /\ ret.op = "Insert" /\ present = {ret.val} /\ ~ret.member =>
         root = ret.node /\ h[root].color = black /\ ret.log = << >>

\* the Delete of the last value returned true and emptied the tree
EmptyWitness ==
    /\ ret.op = "Delete"
    /\ ret.member
    /\ ret.ok
    /\ present = {}
    /\ root = NilNode

\* C6: Insert of a value that is in the tree panics with "duplicate value"
\* and changes nothing: the root, every link, colour and value are as before.
DuplicateRejected ==
    [][ret'.op = "Insert" /\ ret'.member =>
         /\ ret'.err = DuplicateValue
         /\ ~ret'.ok
         /\ ret'.node = Null
         /\ h' = h
         /\ root' = root
         /\ present' = present
         /\ handle' = handle]_vars

\* a duplicate Insert into a tree of three or more values has panicked
DuplicateWitness ==
    /\ ret.op = "Insert"
    /\ ret.member
    /\ ret.err = DuplicateValue
    /\ Cardinality(present) >= 3

\* C7: Delete(v) returns true exactly when v was in the tree; a Delete of an
\* absent value and DeleteNode(nil) return false and change nothing.
DeleteAbsent ==
    [][/\ ret'.op = "Delete" => (ret'.ok <=> ret'.member)
       /\ ret'.op = "Delete" /\ ~ret'.member =>
            ~ret'.ok /\ h' = h /\ root' = root
       /\ ret'.op = "DeleteNode" /\ ret'.node = Null =>
            ~ret'.ok /\ h' = h /\ root' = root]_vars

\* Delete of an absent value returned false on a tree of three or more
DeleteAbsentWitness ==
    /\ ret.op = "Delete"
    /\ ~ret.member
    /\ ~ret.ok
    /\ Cardinality(present) >= 3

\* the node of a value of the tree, and its neighbours in sorted order
nodeOf(v) == Search(tree, v)

nextNode(a) ==
    LET above == {b \in present : b > a}
    IN IF above = {} THEN Null ELSE nodeOf(Min(above))

prevNode(b) ==
    LET below == {a \in present : a < b}
    IN IF below = {} THEN Null ELSE nodeOf(Max(below))

\* C8: for neighbours a < b of the tree Successor(node of a) is the node of b
\* and Predecessor(node of b) the node of a; past the minimum and the maximum
\* both return nil, never the sentinel.
Neighbours ==
    /\ \A v \in present :
         /\ Successor(tree, nodeOf(v)) = nextNode(v)
         /\ Predecessor(tree, nodeOf(v)) = prevNode(v)
    /\ ret.op = "Successor" /\ ret.member => ret.node = nextNode(ret.val)
    /\ ret.op = "Predecessor" /\ ret.member => ret.node = prevNode(ret.val)

\* Successor of the maximum returned nil after climbing from a leaf, in a
\* tree a Delete has spliced
NeighboursWitness ==
    /\ ret.op = "Successor"
    /\ ret.member
    /\ ret.val = Max(present \cup {0})
    /\ ret.node = Null
    /\ Cardinality(present) >= 3
    /\ nodeOf(ret.val) # root
    /\ h[NilNode].parent # Null

\* C9: the node Insert(v) returned has Value v and stays the node Search(v)
\* returns for as long as v is not deleted.
NodeIdentity ==
    /\ \A v \in present :
         /\ handle[v] \in NodeIds
         /\ Search(tree, v) = handle[v]
         /\ h[handle[v]].Value = v
    /\ ret.op = "Insert" /\ ret.ok => h[ret.node].Value = ret.val

\* a Delete moved the deeper successor into the place of a node with two
\* children, and the successor is still the node Insert returned for it
NodeIdentityWitness ==
    /\ ret.op = "Delete"
    /\ Logged("delete: deeper successor")
    /\ \E v \in present :
         /\ v = Min({b \in present : b > ret.val})
         /\ Search(tree, v) = handle[v]
         /\ h[handle[v]].left # NilNode
         /\ h[handle[v]].right # NilNode

\* C4: a traversal in order by a fresh producer yields the values of the
\* tree, each once, ascending, whatever the order of the calls that built
\* the tree.
InOrderSorted ==
    /\ inOrderIterate(tree, NewIter(InOrder), 0).out = SortedSeq(present)
    /\ iter.method = InOrder /\ run.n >= 1 /\ ~run.early /\ ~run.stopped =>
         run.out = SortedSeq(present)

\* a complete traversal in order of a tree of three or more after a Delete
InOrderWitness ==
    /\ iter.method = InOrder
    /\ run.n = 1
    /\ ~run.stopped
    /\ Len(run.out) >= 3
    /\ ret.op = "Delete"
    /\ ret.ok

\* C10: every complete run of a producer, also one after a run the consumer
\* stopped, yields what a fresh traversal of the tree in that mode yields.
Restartable ==
    iter # NoIter /\ run.n >= 1 /\ ~run.stopped =>
      run.out = Run(tree, NewIter(iter.method), 0).out

\* what a consumer that stops at its stop-th element must get of a run
\* that would deliver full: its first stop elements, the run being cut
\* there, or all of full when it ends before the consumer stops
CutAt(r, full, stop) ==
    IF Len(full) >= stop
    THEN r.stopped /\ r.out = SubSeq(full, 1, stop)
    ELSE ~r.stopped /\ r.out = full

\* C11: in all four modes a producer returns when yield returns false
\* without calling yield again: a consumer that stops at its stop-th element
\* gets exactly the first stop elements of what the run delivers to a
\* consumer that never stops, of a fresh producer of every tree and of the
\* producer the caller holds; the first run of a producer, when stopped, has delivered a prefix
\* of the full traversal of the tree.
EarlyTermination ==
    /\ iter = NoIter =>
         \A method \in IterationMethod : \A stop \in 1..MaxStop :
           CutAt(Run(tree, NewIter(method), stop),
                 Run(tree, NewIter(method), 0).out, stop)
    /\ iter # NoIter =>
         \A stop \in 1..MaxStop :
           CutAt(Run(tree, iter, stop), Run(tree, iter, 0).out, stop)
    /\ iter # NoIter /\ run.n = 1 /\ run.stopped =>
         /\ Len(run.out) \in 1..MaxStop
         /\ run.out = SubSeq(Run(tree, NewIter(iter.method), 0).out, 1, Len(run.out))

\* a consumer stopped the first run of a producer at its second element, on
\* a tree that holds more
EarlyTerminationWitness ==
    /\ iter # NoIter
    /\ run.n = 1
    /\ run.stopped
    /\ Len(run.out) = 2
    /\ Cardinality(present) >= 3

\* the values below n, children before parents: left subtree, right subtree, n
RECURSIVE postOrderOf(_, _, _)
postOrderOf(heap, n, fuel) ==
    IF n \notin NodeIds \/ fuel = 0 THEN << >>
    ELSE postOrderOf(heap, heap[n].left, fuel - 1)
           \o postOrderOf(heap, heap[n].right, fuel - 1) \o <<heap[n].Value>>

\* the values a sequence holds
Range(s) == {s[i] : i \in 1..Len(s)}

\* C12: on every tree a complete PostOrder traversal by a producer that was
\* never stopped yields every value once: the left subtree of a node, then
\* its right subtree, then the node; after the Inserts of 1..10 ascending it
\* yields 1,3,2,5,7,10,9,8,6,4.
PostOrderCorrect ==
    LET out == postOrderIterate(tree, NewIter(PostOrder), 0).out
    IN /\ out = postOrderOf(h, root, Fuel)
       /\ Len(out) = Cardinality(present)
       /\ Range(out) = present
       /\ iter.method = PostOrder /\ run.n >= 1 /\ ~run.early /\ ~run.stopped =>
            run.out = out
       /\ Cardinality(present) = AscendingLen /\ builtAscending =>
            out = <<1, 3, 2, 5, 7, 10, 9, 8, 6, 4>>

\* the test has inserted 1..10 and run a PostOrder producer to its end
PostOrderWitness ==
    /\ builtAscending
    /\ Cardinality(present) = AscendingLen
    /\ iter.method = PostOrder
    /\ run.n = 1
    /\ ~run.stopped
    /\ Len(run.out) = AscendingLen

\* the values below n, parents before children: n, left subtree, right subtree
RECURSIVE preOrderOf(_, _, _)
preOrderOf(heap, n, fuel) ==
    IF n \notin NodeIds \/ fuel = 0 THEN << >>
    ELSE <<heap[n].Value>> \o preOrderOf(heap, heap[n].left, fuel - 1)
           \o preOrderOf(heap, heap[n].right, fuel - 1)

\* C13: on every tree a complete PreOrder traversal yields every value
\* once: a node, then its whole left subtree, then its whole right subtree;
\* after the Inserts of 1..10 ascending it yields 4,2,1,3,6,5,8,7,9,10.
PreOrderCorrect ==
    LET out == preOrderIterate(tree, NewIter(PreOrder), 0).out
    IN /\ out = preOrderOf(h, root, Fuel)
       /\ Len(out) = Cardinality(present)
       /\ Range(out) = present
       /\ iter.method = PreOrder /\ run.n >= 1 /\ ~run.stopped => run.out = out
       /\ Cardinality(present) = AscendingLen /\ builtAscending =>
            out = <<4, 2, 1, 3, 6, 5, 8, 7, 9, 10>>

\* the test has inserted 1..10 and run a PreOrder producer to its end
PreOrderWitness ==
    /\ builtAscending
    /\ Cardinality(present) = AscendingLen
    /\ iter.method = PreOrder
    /\ run.n = 1
    /\ ~run.stopped
    /\ Len(run.out) = AscendingLen

\* the nodes one level below the nodes of row, left to right
RECURSIVE childrenOf(_, _)
childrenOf(heap, row) ==
    IF row = << >> THEN << >>
    ELSE (IF heap[Head(row)].left \in NodeIds THEN <<heap[Head(row)].left>> ELSE << >>)
           \o (IF heap[Head(row)].right \in NodeIds THEN <<heap[Head(row)].right>> ELSE << >>)
           \o childrenOf(heap, Tail(row))

\* the values of row and of the levels below it, level by level
RECURSIVE levelOrderOf(_, _, _)
levelOrderOf(heap, row, fuel) ==
    IF row = << >> \/ fuel = 0 THEN << >>
    ELSE [i \in 1..Len(row) |-> heap[row[i]].Value]
           \o levelOrderOf(heap, childrenOf(heap, row), fuel - 1)

\* the number of links from the root down to the node of value v
RECURSIVE depthOf(_, _, _)
depthOf(n, v, fuel) ==
    IF n \notin NodeIds \/ fuel = 0 \/ h[n].Value = v THEN 0
    ELSE 1 + depthOf(IF v < h[n].Value THEN h[n].left ELSE h[n].right, v, fuel - 1)

\* C14: on every tree a complete LevelOrder traversal yields every value
\* once, breadth first: in non-decreasing depth, and left to right (which in
\* a search tree is ascending) within one depth; after the Inserts of 1..10
\* ascending it yields 4,2,6,1,3,5,8,7,9,10.
LevelOrderCorrect ==
    LET out == levelOrderIterate(tree, NewIter(LevelOrder), 0).out
    IN /\ out = levelOrderOf(h, IF root = NilNode THEN << >> ELSE <<root>>, Fuel)
       /\ Len(out) = Cardinality(present)
       /\ Range(out) = present
       /\ \A i \in 1..(Len(out) - 1) :
            \/ depthOf(root, out[i], Fuel) < depthOf(root, out[i + 1], Fuel)
            \/ /\ depthOf(root, out[i], Fuel) = depthOf(root, out[i + 1], Fuel)
               /\ out[i] < out[i + 1]
       /\ iter.method = LevelOrder /\ run.n >= 1 /\ ~run.stopped => run.out = out
       /\ Cardinality(present) = AscendingLen /\ builtAscending =>
            out = <<4, 2, 6, 1, 3, 5, 8, 7, 9, 10>>

\* the test has inserted 1..10 and run a LevelOrder producer to its end
LevelOrderWitness ==
    /\ builtAscending
    /\ Cardinality(present) = AscendingLen
    /\ iter.method = LevelOrder
    /\ run.n = 1
    /\ ~run.stopped
    /\ Len(run.out) = AscendingLen

\* C15: after every call the parent and child links agree: a child of a
\* node of the tree that is not the sentinel is a node whose parent link is
\* that node, the parent link of the root is nil, every other node of the
\* tree is a child of the node its parent link names, and no node of the
\* tree has the sentinel as its parent.
LinksAgree ==
    /\ root # NilNode => root \in NodeIds /\ h[root].parent = Null
    /\ \A n \in subtree(h, root, Fuel) \cup inTree :
         /\ h[n].left # NilNode =>
              h[n].left \in NodeIds /\ h[h[n].left].parent = n
         /\ h[n].right # NilNode =>
              h[n].right \in NodeIds /\ h[h[n].right].parent = n
         /\ h[n].parent # NilNode
         /\ n # root =>
              /\ h[n].parent \in NodeIds
              /\ n \in {h[h[n].parent].left, h[h[n].parent].right}

\* a Delete of a node with two children whose successor was its right child
\* rotated in its fixup, in a tree of four or more
LinksAgreeWitness ==
    /\ ret.op = "Delete"
    /\ Logged("delete: successor is right child")
    /\ Logged("delete: case 3")
    /\ Cardinality(inTree) >= 4

\* C16: a Delete that returns true leaves the node it removed unreachable
\* from the root, with parent, left and right links that reference no node
\* of the tree; stated of the heap as the call leaves it, for every Delete
\* that can be called.
LinksSevered ==
    \A v \in present :
      LET n == Search(tree, v)
          r == Delete(tree, v)
          live == reach(r.t.h, {r.t.root} \ {NilNode})
      IN r.ok =>
           /\ n \notin live
           /\ r.t.h[n].parent \notin live
           /\ r.t.h[n].left \notin live
           /\ r.t.h[n].right \notin live

\* C17: rotateLeft(n) with n.right the sentinel and rotateRight(n) with
\* n.left the sentinel panic, and leave the root and every field of every
\* node and of the sentinel as they were.
RotationAborts ==
    [][/\ ret'.op = "rotateLeft" /\ h[ret'.node].right = NilNode =>
            ret'.err # NoErr /\ h' = h /\ root' = root
       /\ ret'.op = "rotateRight" /\ h[ret'.node].left = NilNode =>
            ret'.err # NoErr /\ h' = h /\ root' = root]_vars

\* C18: no Insert of a value that is not in the tree, no Delete and no
\* DeleteNode ends in a fault: the fixups never rotate a node left whose
\* right child is the sentinel, or right whose left child is the sentinel,
\* and never follow a nil parent or grandparent link (each of these ends
\* the call with err set).
NoFault ==
    /\ ret.op \in {"Delete", "DeleteNode"} => ret.err = NoErr
    /\ ret.op = "Insert" /\ ~ret.member => ret.err = NoErr /\ ret.ok
    /\ ret.op = "Insert" /\ ret.member => ret.err = DuplicateValue

\* a Delete returned after its fixup rotated twice (cases 3 and 4)
NoFaultWitness ==
    /\ ret.op = "Delete"
    /\ ret.err = NoErr
    /\ Logged("delete: case 3")
    /\ Logged("delete: case 4")

\* C19: in every state the sentinel is Black and its left and right links
\* are nil as New made them, and no call has written a child link of the
\* sentinel or coloured it Red on the way (a sibling that is the sentinel
\* would be coloured Red by case 2 of deleteFixup): of the sentinel only the
\* parent link changes.
SentinelKept ==
    /\ h[NilNode].color = black
    /\ h[NilNode].left = New.h[NilNode].left
    /\ h[NilNode].right = New.h[NilNode].right
    /\ h[NilNode].Value = New.h[NilNode].Value
    /\ \A f \in {"left", "right", "color"} : ~Logged("sentinel: " \o f)

\* a Delete ran deleteFixup from the sentinel (case 2 at a sibling that
\* is a node) and left the parent link of the sentinel set
SentinelKeptWitness ==
    /\ ret.op = "Delete"
    /\ Logged("delete: case 2")
    /\ Logged("delete: left child nil")
    /\ h[NilNode].parent # Null
    /\ h[NilNode].color = black

\* how often s is in the log of the last call
Count(s) == Cardinality({i \in 1..Len(ret.log) : ret.log[i] = s})

\* the number of nodes on the longest path from n down
RECURSIVE height(_, _, _)
height(heap, n, fuel) ==
    IF n \notin NodeIds \/ fuel = 0 THEN 0
    ELSE LET l == height(heap, heap[n].left, fuel - 1)
             r == height(heap, heap[n].right, fuel - 1)
         IN 1 + IF l > r THEN l ELSE r

\* C20: every Insert, Delete and DeleteNode returns, after fixup iterations
\* bounded by the height of the tree.  In insertFixup the line case is the
\* last iteration (a triangle turn is part of it) and every iteration before
\* it is a Red uncle, which moves the fixup node two levels up; in
\* deleteFixup case 4 is the last iteration (case 3 is part of it), a case 1
\* is followed in its iteration by case 2, which is then the last, or by
\* case 3 or 4, and every other iteration is a case 2, which moves the
\* fixup node one level up.
FixupsTerminate ==
    LET log == ret.log
        last == Len(ret.log)
    IN /\ \A i \in 1..last :
            /\ log[i] = "insert: line" => i = last
            /\ log[i] = "insert: triangle" => i + 1 = last /\ log[last] = "insert: line"
            /\ log[i] = "insert: red uncle" =>
                 i = last \/ log[i + 1] \in {"insert: red uncle", "insert: triangle",
                                             "insert: line"}
            /\ log[i] = "delete: case 4" => i = last
            /\ log[i] = "delete: case 3" => i + 1 = last /\ log[last] = "delete: case 4"
            /\ log[i] = "delete: case 1" =>
                 /\ i < last
                 /\ log[i + 1] \in {"delete: case 2", "delete: case 3", "delete: case 4"}
                 /\ log[i + 1] = "delete: case 2" => i + 1 = last
       /\ 2 * Count("insert: red uncle") <= height(h, root, Fuel)
       /\ Count("delete: case 2") <= height(h, root, Fuel)
       /\ Count("delete: case 1") <= 1

\* the fixup of a Delete moved up by case 2 and ended with case 4
FixupsTerminateWitness ==
    /\ ret.op = "Delete"
    /\ \E i \in 1..Len(ret.log) :
         /\ ret.log[i] = "delete: case 2"
         /\ ret.log[Len(ret.log)] = "delete: case 4"

ParentLinkRight(t, x) ==
    IF x = t.root THEN t.h[x].parent = Null
    ELSE /\ t.h[x].parent \in reach(t.h, {t.root} \ {NilNode})
         /\ x \in {t.h[t.h[x].parent].left, t.h[t.h[x].parent].right}

\* C22: whenever DeleteNode calls deleteFixup(x), the parent link of x is
\* the node whose child slot x occupies (nil when x is the root), also when
\* x is the sentinel.  With zero or one child x took the slot of the node
\* removed; with the successor the right child of the node removed x is
\* still the right child of the successor; with a deeper successor x took
\* the successor's slot, the left one of the successor's old parent.
FixupParent ==
    [][ret'.op \in {"Delete", "DeleteNode"} /\ ret'.ok =>
         LET n == ret'.node
             s == deleteSplice(tree, n)
             x == s.odd
         IN s.originalColor = black =>
              /\ s.t.err = NoErr
              /\ ParentLinkRight(s.t, x)
              /\ IF h[n].left = NilNode \/ h[n].right = NilNode
                 THEN /\ s.t.h[x].parent = h[n].parent
                      /\ h[n].parent # Null =>
                           IF h[h[n].parent].left = n
                           THEN s.t.h[h[n].parent].left = x
                           ELSE s.t.h[h[n].parent].right = x
                 ELSE LET minimum == leftmost(tree, h[n].right) IN
                      IF h[minimum].parent = n
                      THEN /\ s.t.h[x].parent = minimum
                           /\ s.t.h[minimum].right = x
                      ELSE /\ s.t.h[x].parent = h[minimum].parent
                           /\ s.t.h[h[minimum].parent].left = x]_vars

\* a Delete moved a deeper successor into the place of the node removed and
\* its fixup, started at the sentinel, went through a case: it read the
\* sentinel's parent link
FixupParentWitness ==
    /\ ret.op = "Delete"
    /\ ret.ok
    /\ Logged("delete: deeper successor")
    /\ \E c \in {"delete: case 2", "delete: case 4"} : Logged(c)
    /\ ret.err = NoErr
====
